---- MODULE Spec2Model ----
(***************************************************************************)
(* A model of the dstr crate: DStr, a borrowed nul-terminated UTF-8 string *)
(* (src/src/dstr.rs), its construction errors (src/src/dstr/error.rs), the *)
(* byte scanners memchr and strlen (src/src/mem.rs) and the owned DString  *)
(* (src/src/dstring.rs).                                                   *)
(*                                                                         *)
(* Memory is a heap of allocations; a pointer is an allocation and a       *)
(* 0-based offset, a reference to a str, a [u8] or a DStr is a fat pointer *)
(* (pointer and length) tagged with the type it is viewed as.              *)
(***************************************************************************)
EXTENDS Integers, Sequences, FiniteSets, TLC

\* ---------------------------------------------------------------- bounds
\* Longest caller allocation, in bytes.
MaxLen == 3

\* Width of usize in the model, in bits.
UsizeBits == 8

\* ------------------------------------------------------------- constants
\* The nul terminator.
Nul == 0

\* The byte values texts are drawn from: nul, 'a', 'b'.
Byte == {Nul, 97, 98}

\* The allocation of the caller's text and the allocation of a String.
CallerAlloc == "caller"
StringAlloc == "string"

RECURSIVE Pow2(_)
Pow2(n) == IF n = 0 THEN 1 ELSE 2 * Pow2(n - 1)

UsizeModulus == Pow2(UsizeBits)

\* --------------------------------------------------------------- options
None == [some |-> FALSE]
Some(x) == [some |-> TRUE, val |-> x]

Ok(x) == [ok |-> TRUE, val |-> x]
Err(e) == [ok |-> FALSE, err |-> e]

\* The unit value ().
Unit == <<>>

\* ------------------------------------------------------------------ state
VARIABLES
    heap,     \* allocation -> the bytes it holds
    text,     \* the caller's &str: a fat pointer into the caller's allocation
    dstr,     \* the current &DStr, or None
    ctor,     \* the constructor that made dstr
    dstring,  \* the current DString, or None
    op,       \* the operation that ran last
    args,     \* its arguments
    out,      \* what it returned
    reads     \* the offsets the last scan read, relative to its start

vars == <<heap, text, dstr, ctor, dstring, op, args, out, reads>>

\* ---------------------------------------------------------------- memory
Ptr(alloc, off) == [alloc |-> alloc, off |-> off]

\* A reference to `len` bytes at `ptr`, viewed as type `ty`.
Ref(ty, ptr, len) == [ty |-> ty, ptr |-> ptr, len |-> len]

\* The reference lies inside its allocation.
InBounds(h, r) == r.ptr.off + r.len <= Len(h[r.ptr.alloc])

\* The bytes a reference denotes.
Deref(h, r) == [i \in 1..r.len |-> h[r.ptr.alloc][r.ptr.off + i]]

\* All byte sequences of length at most n.
SeqsUpTo(n) == UNION {[1..k -> Byte] : k \in 0..n}

\* ------------------------------------------------------------ src/mem.rs
\* The loop of memchr from `index` on; `seen` are the indices read so far.
RECURSIVE memchr_loop(_, _, _, _)
memchr_loop(needle, haystack, index, seen) ==
    IF index < Len(haystack)
    THEN IF haystack[index + 1] = needle
         THEN [ret |-> Some(index), reads |-> seen \cup {index}]
         ELSE memchr_loop(needle, haystack, index + 1, seen \cup {index})
    ELSE [ret |-> None, reads |-> seen]

\* memchr with the scan started one byte late.
memchr_scan_from_one(needle, haystack) == memchr_loop(needle, haystack, 1, {})

memchr_scan(needle, haystack) == memchr_loop(needle, haystack, 0, {})

memchr(needle, haystack) == memchr_scan(needle, haystack).ret

\* The loop of strlen from `len` on. Reading past the end of the
\* allocation is undefined behaviour.
RECURSIVE strlen_loop(_, _, _, _)
strlen_loop(h, ptr, len, seen) ==
    IF ptr.off + len >= Len(h[ptr.alloc])
    THEN [ub |-> TRUE, ret |-> len, reads |-> seen \cup {len}]
    ELSE IF h[ptr.alloc][ptr.off + len + 1] # Nul
         THEN strlen_loop(h, ptr, len + 1, seen \cup {len})
         ELSE [ub |-> FALSE, ret |-> len, reads |-> seen \cup {len}]

\* strlen with the terminator counted.
strlen_counting_nul(h, ptr) ==
    LET s == strlen_loop(h, ptr, 0, {})
    IN  [ub |-> s.ub, ret |-> s.ret + 1, reads |-> s.reads]

strlen(h, ptr) == strlen_loop(h, ptr, 0, {})

\* ---------------------------------------------------------- call results
Returned(v) == [tag |-> "ret", val |-> v]
Panicked(msg) == [tag |-> "panic", msg |-> msg]

\* The message of the debug assertions of len_with_nul and is_empty.
AssertMsg == "a nul-terminated string must have at least a nul"

\* The message of todo!().
TodoMsg == "not yet implemented"

\* usize subtraction as a release build computes it.
usize_sub(a, b) == (a - b + UsizeModulus) % UsizeModulus

\* ----------------------------------------------------------- src/dstr.rs
\* self.raw: the str a DStr wraps (repr(transparent)).
raw(self) == Ref("str", self.ptr, self.len)

\* str::is_empty, str::len, str::as_ptr, str::as_bytes on self.raw.
raw_is_empty(self) == raw(self).len = 0

\* The debug assertion of len_with_nul and is_empty fails, and in a release
\* build NonZeroUsize::new_unchecked(0) or the read of raw[0] is undefined.
violates_nonempty(self) == raw_is_empty(self)

len_with_nul(self) == raw(self).len

\* len without the subtraction of the terminator.
len_keeping_nul(self) == len_with_nul(self)

len(self) == usize_sub(len_with_nul(self), 1)

\* is_empty as str::is_empty of the raw text.
is_empty_of_raw(h, self) == raw_is_empty(self)

is_empty(h, self) == h[raw(self).ptr.alloc][raw(self).ptr.off + 1] = Nul

as_bytes_with_nul(self) == Ref("u8", raw(self).ptr, raw(self).len)

\* core::slice::from_raw_parts(ptr, len)
from_raw_parts(ptr, n) == Ref("u8", ptr, n)

\* as_bytes with the length that includes the terminator.
as_bytes_keeping_nul(self) == from_raw_parts(raw(self).ptr, len_with_nul(self))

as_bytes(self) == from_raw_parts(raw(self).ptr, len(self))

\* as_str_with_nul with the terminator cut off.
as_str_with_nul_cut(self) ==
    Ref("str", raw(self).ptr, IF raw_is_empty(self) THEN 0 ELSE raw(self).len - 1)

as_str_with_nul(self) == raw(self)

\* core::str::from_utf8_unchecked(bytes)
from_utf8_unchecked(bytes) == Ref("str", bytes.ptr, bytes.len)

as_str(self) == from_utf8_unchecked(as_bytes(self))

as_ptr(self) == raw(self).ptr

as_c_ptr(self) == as_ptr(self)

\* &*(string as *const str as *const DStr)
from_str_with_nul_unchecked(string) == Ref("DStr", string.ptr, string.len)

\* &*(bytes as *const [u8] as *const DStr)
from_bytes_with_nul_unchecked(bytes) == Ref("DStr", bytes.ptr, bytes.len)

\* ----------------------------------------------------- src/dstr/error.rs
NotNulTerminated == [tag |-> "NotNulTerminated"]
InteriorNul(pos) == [tag |-> "InteriorNul", pos |-> pos]
MissingNul == [tag |-> "MissingNul"]
InvalidUtf8(e) == [tag |-> "InvalidUtf8", err |-> e]

\* The offsets an error is drawn with.
Positions == 0..MaxLen

\* core::str::Utf8Error values, by the length of the valid prefix.
Utf8Error == {[valid_up_to |-> n] : n \in 0..1}

FromStrError == {NotNulTerminated, MissingNul} \cup {InteriorNul(p) : p \in Positions}

FromBytesError ==
    {NotNulTerminated, MissingNul} \cup {InteriorNul(p) : p \in Positions}
        \cup {InvalidUtf8(e) : e \in Utf8Error}

\* #[derive(PartialEq)] on FromStrError: same variant, same payload.
FromStrError_eq(a, b) ==
    /\ a.tag = b.tag
    /\ a.tag = "InteriorNul" => a.pos = b.pos

\* #[derive(PartialEq)] on FromBytesError.
FromBytesError_eq(a, b) ==
    /\ a.tag = b.tag
    /\ a.tag = "InteriorNul" => a.pos = b.pos
    /\ a.tag = "InvalidUtf8" => a.err.valid_up_to = b.err.valid_up_to

to_from_bytes_error(self) ==
    CASE self.tag = "NotNulTerminated" -> NotNulTerminated
      [] self.tag = "InteriorNul" -> InteriorNul(self.pos)
      [] self.tag = "MissingNul" -> MissingNul

\* impl From<FromStrError> for FromBytesError
from(value) == to_from_bytes_error(value)

\* try_from with the arm of MissingNul returning NotNulTerminated.
try_from_swapped_arm(value) ==
    CASE value.tag = "NotNulTerminated" -> Ok(NotNulTerminated)
      [] value.tag = "InteriorNul" -> Ok(InteriorNul(value.pos))
      [] value.tag = "MissingNul" -> Ok(NotNulTerminated)
      [] OTHER -> Err(Unit)

\* impl TryFrom<FromBytesError> for FromStrError
try_from(value) ==
    CASE value.tag = "NotNulTerminated" -> Ok(NotNulTerminated)
      [] value.tag = "InteriorNul" -> Ok(InteriorNul(value.pos))
      [] value.tag = "MissingNul" -> Ok(MissingNul)
      [] OTHER -> Err(Unit)

\* eq that compares the variants and not their payload.
eq_str_bytes_by_variant(self, other) ==
    LET r == try_from(other)
    IN  IF r.ok THEN self.tag = r.val.tag ELSE FALSE

\* impl PartialEq<FromBytesError> for FromStrError
eq_str_bytes(self, other) ==
    LET r == try_from(other)
    IN  IF r.ok THEN FromStrError_eq(self, r.val) ELSE FALSE

\* impl PartialEq<FromStrError> for FromBytesError
eq_bytes_str(self, other) == FromBytesError_eq(self, from(other))

\* The validating constructor with the scan run over the whole text, final
\* position included.
from_str_with_nul_whole_scan(h, string) ==
    LET bytes == Deref(h, string)
        n == string.len
    IN  IF n = 0 THEN Err(MissingNul)
        ELSE IF bytes[n] # Nul THEN Err(NotNulTerminated)
        ELSE LET found == memchr(Nul, bytes)
             IN  IF found.some
                 THEN Err(InteriorNul(found.val))
                 ELSE Ok(from_str_with_nul_unchecked(string))

\* ------------------------------------------- the validating constructor
\* DStr::from_str_with_nul, as the specification gives it: the final byte is
\* checked, then memchr scans the text without its final position.
from_str_with_nul(h, string) ==
    LET bytes == Deref(h, string)
        n == string.len
    IN  IF n = 0 THEN Err(MissingNul)
        ELSE IF bytes[n] # Nul THEN Err(NotNulTerminated)
        ELSE LET found == memchr(Nul, SubSeq(bytes, 1, n - 1))
             IN  IF found.some
                 THEN Err(InteriorNul(found.val))
                 ELSE Ok(from_str_with_nul_unchecked(string))

\* -------------------------------------------------------- src/dstring.rs
\* str::to_owned: a fresh String holding a copy of the bytes.
to_owned(h, string) ==
    [heap |-> [h EXCEPT ![StringAlloc] = Deref(h, string)],
     string |-> Ref("String", Ptr(StringAlloc, 0), string.len)]

\* impl From<&DStr> for DString
DString_from(h, value) ==
    LET o == to_owned(h, as_str_with_nul(value))
    IN  [heap |-> o.heap, dstring |-> [inner |-> o.string]]

\* DString::as_dstr and DString::as_dstr_mut: todo!()
as_dstr(self) == Panicked(TodoMsg)

as_dstr_mut(self) == Panicked(TodoMsg)

\* Deref::deref and DerefMut::deref_mut
deref(self) == as_dstr(self)

deref_mut(self) == as_dstr_mut(self)

\* ---------------------------------------------------------- initial state
\* The caller holds a text somewhere inside an allocation of at most MaxLen
\* bytes; no view and no owned buffer exist yet.
Init ==
    /\ \E bytes \in SeqsUpTo(MaxLen) :
         \E off \in 0..Len(bytes) :
           \E n \in 0..(Len(bytes) - off) :
             /\ heap = [a \in {CallerAlloc, StringAlloc} |->
                          IF a = CallerAlloc THEN bytes ELSE <<>>]
             /\ text = Ref("str", Ptr(CallerAlloc, off), n)
    /\ dstr = None
    /\ ctor = "none"
    /\ dstring = None
    /\ op = "init"
    /\ args = <<>>
    /\ out = Returned(Unit)
    /\ reads = {}

\* What a call on an empty `raw` can produce: the debug assertion panics, or
\* the release build goes on with an undefined value.
UndefinedUsize == {Panicked(AssertMsg)} \cup {Returned(v) : v \in 0..MaxLen}
UndefinedBool == {Panicked(AssertMsg)} \cup {Returned(b) : b \in BOOLEAN}
UndefinedSlice(ty, ptr) ==
    {Panicked(AssertMsg)} \cup {Returned(Ref(ty, ptr, v)) : v \in 0..MaxLen}

\* An operation that only reads: it records its call and result.
Call(name, arguments, result) ==
    /\ op' = name
    /\ args' = arguments
    /\ out' = result
    /\ reads' = {}
    /\ UNCHANGED <<heap, text, dstr, ctor, dstring>>

\* ----------------------------------------------------------- constructors
FromStrWithNul ==
    LET r == from_str_with_nul(heap, text)
    IN  /\ op' = "from_str_with_nul"
        /\ args' = <<text>>
        /\ out' = Returned(r)
        /\ reads' = {}
        /\ dstr' = IF r.ok THEN Some(r.val) ELSE dstr
        /\ ctor' = IF r.ok THEN "from_str_with_nul" ELSE ctor
        /\ UNCHANGED <<heap, text, dstring>>

FromStrWithNulUnchecked ==
    LET d == from_str_with_nul_unchecked(text)
    IN  /\ op' = "from_str_with_nul_unchecked"
        /\ args' = <<text>>
        /\ out' = Returned(d)
        /\ reads' = {}
        /\ dstr' = Some(d)
        /\ ctor' = "from_str_with_nul_unchecked"
        /\ UNCHANGED <<heap, text, dstring>>

FromBytesWithNulUnchecked ==
    LET bytes == Ref("u8", text.ptr, text.len)
        d == from_bytes_with_nul_unchecked(bytes)
    IN  /\ op' = "from_bytes_with_nul_unchecked"
        /\ args' = <<bytes>>
        /\ out' = Returned(d)
        /\ reads' = {}
        /\ dstr' = Some(d)
        /\ ctor' = "from_bytes_with_nul_unchecked"
        /\ UNCHANGED <<heap, text, dstring>>

\* -------------------------------------------------------------- accessors
LenWithNul ==
    /\ dstr.some
    /\ \E r \in IF violates_nonempty(dstr.val)
                THEN UndefinedUsize
                ELSE {Returned(len_with_nul(dstr.val))} :
         Call("len_with_nul", <<dstr.val>>, r)

LenOp ==
    /\ dstr.some
    /\ \E r \in IF violates_nonempty(dstr.val)
                THEN UndefinedUsize
                ELSE {Returned(len(dstr.val))} :
         Call("len", <<dstr.val>>, r)

IsEmpty ==
    /\ dstr.some
    /\ \E r \in IF violates_nonempty(dstr.val)
                THEN UndefinedBool
                ELSE {Returned(is_empty(heap, dstr.val))} :
         Call("is_empty", <<dstr.val>>, r)

AsBytesWithNul ==
    /\ dstr.some
    /\ Call("as_bytes_with_nul", <<dstr.val>>, Returned(as_bytes_with_nul(dstr.val)))

AsBytes ==
    /\ dstr.some
    /\ \E r \in IF violates_nonempty(dstr.val)
                THEN UndefinedSlice("u8", raw(dstr.val).ptr)
                ELSE {Returned(as_bytes(dstr.val))} :
         Call("as_bytes", <<dstr.val>>, r)

AsStrWithNul ==
    /\ dstr.some
    /\ Call("as_str_with_nul", <<dstr.val>>, Returned(as_str_with_nul(dstr.val)))

AsStr ==
    /\ dstr.some
    /\ \E r \in IF violates_nonempty(dstr.val)
                THEN UndefinedSlice("str", raw(dstr.val).ptr)
                ELSE {Returned(as_str(dstr.val))} :
         Call("as_str", <<dstr.val>>, r)

AsPtr ==
    /\ dstr.some
    /\ Call("as_ptr", <<dstr.val>>, Returned(as_ptr(dstr.val)))

AsCPtr ==
    /\ dstr.some
    /\ Call("as_c_ptr", <<dstr.val>>, Returned(as_c_ptr(dstr.val)))

\* --------------------------------------------------------------- scanners
\* memchr over the bytes of the caller's text.
Memchr ==
    \E needle \in Byte :
      LET haystack == Deref(heap, text)
          s == memchr_scan(needle, haystack)
      IN  /\ op' = "memchr"
          /\ args' = <<needle, haystack>>
          /\ out' = Returned(s.ret)
          /\ reads' = s.reads
          /\ UNCHANGED <<heap, text, dstr, ctor, dstring>>

\* strlen on the C pointer of the view. A scan that leaves the allocation is
\* undefined: it may fault or return any length.
Strlen ==
    /\ dstr.some
    /\ LET p == as_c_ptr(dstr.val)
           s == strlen(heap, p)
       IN  /\ op' = "strlen"
           /\ args' = <<p>>
           /\ out' \in IF s.ub
                       THEN {[tag |-> "fault"]} \cup {Returned(v) : v \in 0..MaxLen}
                       ELSE {Returned(s.ret)}
           /\ reads' = s.reads
           /\ UNCHANGED <<heap, text, dstr, ctor, dstring>>

\* ---------------------------------------------------------------- DString
DStringFrom ==
    /\ dstr.some
    /\ LET r == DString_from(heap, dstr.val)
       IN  /\ heap' = r.heap
           /\ dstring' = Some(r.dstring)
           /\ op' = "DString::from"
           /\ args' = <<dstr.val>>
           /\ out' = Returned(r.dstring)
           /\ reads' = {}
           /\ UNCHANGED <<text, dstr, ctor>>

AsDStr ==
    /\ dstring.some
    /\ Call("as_dstr", <<dstring.val>>, as_dstr(dstring.val))

AsDStrMut ==
    /\ dstring.some
    /\ Call("as_dstr_mut", <<dstring.val>>, as_dstr_mut(dstring.val))

DerefOp ==
    /\ dstring.some
    /\ Call("deref", <<dstring.val>>, deref(dstring.val))

DerefMutOp ==
    /\ dstring.some
    /\ Call("deref_mut", <<dstring.val>>, deref_mut(dstring.val))

\* ----------------------------------------------------------------- errors
ToFromBytesError ==
    \E e \in FromStrError :
      Call("to_from_bytes_error", <<e>>, Returned(to_from_bytes_error(e)))

FromOp ==
    \E e \in FromStrError :
      Call("from", <<e>>, Returned(from(e)))

TryFrom ==
    \E b \in FromBytesError :
      Call("try_from", <<b>>, Returned(try_from(b)))

EqStrBytes ==
    \E s \in FromStrError : \E b \in FromBytesError :
      Call("eq_str_bytes", <<s, b>>, Returned(eq_str_bytes(s, b)))

EqBytesStr ==
    \E b \in FromBytesError : \E s \in FromStrError :
      Call("eq_bytes_str", <<b, s>>, Returned(eq_bytes_str(b, s)))

\* ---------------------------------------------------------- specification
Next ==
    \/ FromStrWithNul
    \/ FromStrWithNulUnchecked
    \/ FromBytesWithNulUnchecked
    \/ LenWithNul
    \/ LenOp
    \/ IsEmpty
    \/ AsBytesWithNul
    \/ AsBytes
    \/ AsStrWithNul
    \/ AsStr
    \/ AsPtr
    \/ AsCPtr
    \/ Memchr
    \/ Strlen
    \/ DStringFrom
    \/ AsDStr
    \/ AsDStrMut
    \/ DerefOp
    \/ DerefMutOp

Spec == Init /\ [][Next]_vars

\* The error values on their own: no text is involved in converting or
\* comparing them, so the caller's allocation is left empty.
InitErr ==
    /\ heap = [a \in {CallerAlloc, StringAlloc} |-> <<>>]
    /\ text = Ref("str", Ptr(CallerAlloc, 0), 0)
    /\ dstr = None
    /\ ctor = "none"
    /\ dstring = None
    /\ op = "init"
    /\ args = <<>>
    /\ out = Returned(Unit)
    /\ reads = {}

NextErr ==
    \/ ToFromBytesError
    \/ FromOp
    \/ TryFrom
    \/ EqStrBytes
    \/ EqBytesStr

SpecErr == InitErr /\ [][NextErr]_vars

\* ------------------------------------------------------------- properties
\* The invariants of a DStr (the Safety section of its documentation): the
\* bytes are valid UTF-8 (here: ASCII), the last byte is the nul and no byte
\* before it is.
Invariants(h, d) ==
    /\ d.len >= 1
    /\ InBounds(h, d)
    /\ \A i \in 1..d.len : Deref(h, d)[i] < 128
    /\ Deref(h, d)[d.len] = Nul
    /\ \A i \in 1..(d.len - 1) : Deref(h, d)[i] # Nul

\* The least element of a non-empty set of numbers.
Least(S) == CHOOSE x \in S : \A y \in S : x <= y

\* The 0-based indices of the bytes of `bytes` equal to `b`.
IndicesOf(b, bytes) == {i \in 0..(Len(bytes) - 1) : bytes[i + 1] = b}

\* C1: the validating constructor from text classifies every text: empty
\* gives MissingNul; a non-zero final byte gives NotNulTerminated; a zero
\* byte before the final position gives InteriorNul of the first zero byte;
\* anything else is a view over exactly the bytes of the text.
C1_Classification ==
    op = "from_str_with_nul" =>
        LET t == Deref(heap, args[1])
            n == Len(t)
            zeros == IndicesOf(Nul, t)
        IN  /\ out.tag = "ret"
            /\ IF n = 0 THEN out.val = Err(MissingNul)
               ELSE IF t[n] # Nul THEN out.val = Err(NotNulTerminated)
               ELSE IF \E i \in zeros : i < n - 1
                    THEN out.val = Err(InteriorNul(Least(zeros)))
                    ELSE /\ out.val.ok
                         /\ out.val.val.ty = "DStr"
                         /\ out.val.val.ptr = args[1].ptr
                         /\ out.val.val.len = n
                         /\ Deref(heap, out.val.val) = t
                         /\ dstr = Some(out.val.val)

\* A text with two interior nuls is rejected with the offset of the first.
C1_Witness ==
    /\ op = "from_str_with_nul"
    /\ Cardinality(IndicesOf(Nul, Deref(heap, args[1]))) = 2
    /\ Deref(heap, args[1])[1] # Nul
    /\ out = Returned(Err(InteriorNul(1)))

\* C2: for a text that ends in exactly one nul and holds no other nul, the
\* view constructed from it reads back, terminator included, as exactly that
\* text: as_str_with_nul and as_bytes_with_nul give the same position, length
\* and bytes.
C2_RoundTrip ==
    (/\ dstr.some
     /\ Invariants(heap, text)
     /\ op \in {"as_str_with_nul", "as_bytes_with_nul"}) =>
        /\ out.tag = "ret"
        /\ out.val.ty = (IF op = "as_str_with_nul" THEN "str" ELSE "u8")
        /\ out.val.ptr = text.ptr
        /\ out.val.len = text.len
        /\ Deref(heap, out.val) = Deref(heap, text)

C2_Witness ==
    /\ dstr.some
    /\ Invariants(heap, text)
    /\ text.len = 2
    /\ text.ptr.off = 1
    /\ ctor = "from_str_with_nul_unchecked"
    /\ op = "as_str_with_nul"
    /\ Deref(heap, out.val) = <<97, Nul>>

\* C3: on a view that satisfies the invariants len_with_nul is the number of
\* bytes of the buffer and at least 1, len is one less, and the subtraction
\* in len does not underflow.
C3_LengthConsistency ==
    (dstr.some /\ Invariants(heap, dstr.val)) =>
        /\ len_with_nul(dstr.val) = len(dstr.val) + 1
        /\ len_with_nul(dstr.val) - 1 >= 0
        /\ op = "len_with_nul" =>
              /\ out.tag = "ret"
              /\ out.val = Len(Deref(heap, text))
              /\ out.val >= 1
        /\ op = "len" =>
              /\ out.tag = "ret"
              /\ out.val = Len(Deref(heap, text)) - 1

C3_Witness ==
    /\ dstr.some
    /\ Invariants(heap, dstr.val)
    /\ op = "len"
    /\ out = Returned(2)

\* C4: on a view that satisfies the invariants is_empty is true exactly when
\* the first byte of the buffer is the nul, exactly when len is 0, exactly
\* when as_bytes has no bytes.
C4_Emptiness ==
    (dstr.some /\ Invariants(heap, dstr.val) /\ op = "is_empty") =>
        /\ out.tag = "ret"
        /\ out.val <=> (heap[text.ptr.alloc][text.ptr.off + 1] = Nul)
        /\ out.val <=> (len(dstr.val) = 0)
        /\ out.val <=> (Deref(heap, as_bytes(dstr.val)) = <<>>)
        /\ out.val <=> (text.len = 1)

C4_Witness ==
    /\ dstr.some
    /\ Invariants(heap, dstr.val)
    /\ op = "is_empty"
    /\ out = Returned(TRUE)
    /\ Len(heap[CallerAlloc]) > 1

\* A FromStrError and a FromBytesError are the same variant with the same
\* payload.
SameError(s, b) ==
    /\ s.tag = b.tag
    /\ s.tag = "InteriorNul" => s.pos = b.pos
    /\ s.tag # "InvalidUtf8"

\* C5: FromStrError -> FromBytesError is total and keeps variant and payload;
\* FromBytesError -> FromStrError fails exactly on InvalidUtf8 and otherwise
\* keeps variant and payload; so widening and narrowing back gives Ok of the
\* error one started from, and narrowing a FromBytesError that is not
\* InvalidUtf8 and widening back gives it again.
C5_ConversionSoundness ==
    /\ op \in {"to_from_bytes_error", "from"} =>
          /\ out.tag = "ret"
          /\ out.val \in FromBytesError
          /\ SameError(args[1], out.val)
          /\ try_from(out.val) = Ok(args[1])
    /\ op = "try_from" =>
          /\ out.tag = "ret"
          /\ out.val.ok <=> (args[1].tag # "InvalidUtf8")
          /\ ~out.val.ok => out.val = Err(Unit)
          /\ out.val.ok =>
                /\ out.val.val \in FromStrError
                /\ SameError(out.val.val, args[1])
                /\ from(out.val.val) = args[1]
                /\ to_from_bytes_error(out.val.val) = args[1]

C5_Witness ==
    /\ op = "try_from"
    /\ args[1] = InteriorNul(2)
    /\ out = Returned(Ok(InteriorNul(2)))

\* C6: s == b and b == s give the same result, which is the comparison of b
\* with the widened FromBytesError::from(s); an InvalidUtf8 equals no
\* FromStrError, and two InteriorNul are equal only with equal offsets.
C6_CrossTypeEquality ==
    /\ op = "eq_str_bytes" =>
          /\ out.tag = "ret"
          /\ out.val = eq_bytes_str(args[2], args[1])
          /\ out.val = FromBytesError_eq(args[2], from(args[1]))
          /\ out.val = SameError(args[1], args[2])
          /\ args[2].tag = "InvalidUtf8" => ~out.val
    /\ op = "eq_bytes_str" =>
          /\ out.tag = "ret"
          /\ out.val = eq_str_bytes(args[2], args[1])
          /\ out.val = FromBytesError_eq(args[1], from(args[2]))
          /\ out.val = SameError(args[2], args[1])
          /\ args[1].tag = "InvalidUtf8" => ~out.val

C6_Witness ==
    /\ op = "eq_str_bytes"
    /\ args = <<InteriorNul(1), InteriorNul(2)>>
    /\ out = Returned(FALSE)

\* C7: an owned buffer made from a valid view holds a copy of the view's text
\* with its terminator, and as_dstr, as_dstr_mut, deref and deref_mut on it
\* return, without panicking, a valid view with the same bytes.
C7_OwnedDelegation ==
    (dstr.some /\ Invariants(heap, dstr.val) /\ dstring.some) =>
        /\ Deref(heap, dstring.val.inner) = Deref(heap, dstr.val)
        /\ op \in {"as_dstr", "as_dstr_mut", "deref", "deref_mut"} =>
              /\ out.tag = "ret"
              /\ Invariants(heap, out.val)
              /\ Deref(heap, out.val) = Deref(heap, dstr.val)

\* C8: memchr returns the least index at which the haystack holds the needle,
\* or None when there is none; it reads no index outside the haystack and
\* leaves the haystack as it was.
C8_Memchr ==
    op = "memchr" =>
        LET needle == args[1]
            haystack == args[2]
            hits == IndicesOf(needle, haystack)
        IN  /\ out.tag = "ret"
            /\ out.val = (IF hits # {} THEN Some(Least(hits)) ELSE None)
            /\ reads \subseteq 0..(Len(haystack) - 1)
            /\ Deref(heap, text) = haystack

\* The needle occurs twice, and not at the start.
C8_Witness ==
    /\ op = "memchr"
    /\ Cardinality(IndicesOf(args[1], args[2])) = 2
    /\ out = Returned(Some(1))

AccessorOps ==
    {"as_bytes", "as_bytes_with_nul", "as_str", "as_str_with_nul"}

\* What C9 says of one step that ran an accessor on a valid view.
C9_Step ==
    (op' \in AccessorOps /\ dstr.some /\ Invariants(heap, dstr.val)) =>
        LET d == dstr.val
            whole == Deref(heap, text)
            n == Len(whole)
        IN  /\ heap' = heap
            /\ text' = text
            /\ dstr' = dstr
            /\ out'.tag = "ret"
            /\ out'.val.ptr = text.ptr
            /\ out'.val.ty = (IF op' \in {"as_str", "as_str_with_nul"}
                              THEN "str" ELSE "u8")
            /\ op' \in {"as_bytes", "as_str"} =>
                  /\ out'.val.len = len(d)
                  /\ out'.val.len = n - 1
                  /\ Deref(heap', out'.val) = SubSeq(whole, 1, n - 1)
                  /\ IndicesOf(Nul, Deref(heap', out'.val)) = {}
            /\ op' \in {"as_bytes_with_nul", "as_str_with_nul"} =>
                  /\ out'.val.len = n
                  /\ Deref(heap', out'.val) = whole
                  /\ Deref(heap', out'.val)[n] = Nul
            /\ Deref(heap, as_bytes(d)) =
                  SubSeq(Deref(heap, as_bytes_with_nul(d)), 1, n - 1)
            /\ Deref(heap, as_str(d)) = Deref(heap, as_bytes(d))
            /\ Deref(heap, as_str_with_nul(d)) = Deref(heap, as_bytes_with_nul(d))

\* C9: on a view that satisfies the invariants as_bytes is as_bytes_with_nul
\* without its final byte, at the same position; as_str has the bytes of
\* as_bytes and as_str_with_nul those of as_bytes_with_nul; the final byte of
\* as_bytes_with_nul is the nul and as_bytes holds no nul; and none of these
\* reads changes the buffer.
C9_AccessorViews == [][C9_Step]_vars

C9_Witness ==
    /\ dstr.some
    /\ Invariants(heap, dstr.val)
    /\ op = "as_bytes"
    /\ text.ptr.off = 1
    /\ out.tag = "ret"
    /\ Deref(heap, out.val) = <<98>>

\* The offsets k for which the byte k after `ptr` is in the allocation and
\* is the nul.
NulsFrom(h, ptr) ==
    {k \in 0..(Len(h[ptr.alloc]) - ptr.off - 1) : h[ptr.alloc][ptr.off + k + 1] = Nul}

\* C10: as_ptr and as_c_ptr address the first byte of the buffer; on a view
\* that satisfies the invariants strlen from that address stays inside the
\* buffer and returns len, so len_with_nul is strlen + 1; and strlen returns
\* the offset of the first nul at or after the pointer.
C10_ScanLengthAgreement ==
    /\ (dstr.some /\ op \in {"as_ptr", "as_c_ptr"}) =>
          /\ out.tag = "ret"
          /\ out.val = text.ptr
    /\ (dstr.some /\ op = "strlen") =>
          /\ args[1] = text.ptr
          /\ NulsFrom(heap, args[1]) # {} =>
                out = Returned(Least(NulsFrom(heap, args[1])))
          /\ Invariants(heap, dstr.val) =>
                /\ out.tag = "ret"
                /\ out.val = len(dstr.val)
                /\ len_with_nul(dstr.val) = out.val + 1
                /\ reads \subseteq 0..(text.len - 1)

C10_Witness ==
    /\ dstr.some
    /\ Invariants(heap, dstr.val)
    /\ op = "strlen"
    /\ text.ptr.off = 1
    /\ out = Returned(1)
    /\ reads = {0, 1}

====
